---- MODULE Spec2Model ----
(***************************************************************************)
(* Model of opampnoise/opampnoise.py: the opamp noise functions, each      *)
(* called with arguments drawn from bounded sets.                          *)
(*                                                                         *)
(* Numbers.  Python floats are modelled by exact real arithmetic (no       *)
(* rounding, no overflow) on the values the functions can produce from     *)
(* the inputs:                                                             *)
(*   - a scaled rational  (n/d) * 10^e * pi^p, kept in canonical form;     *)
(*   - the square root of one (np.sqrt), and a product of two square       *)
(*     roots (the returned RMS value), kept by their radicands;            *)
(*   - NaN, which np.sqrt gives for a negative argument;                   *)
(*   - None, the default of filter_res and filter_cap.                     *)
(* A call ends by returning or by raising ZeroDivisionError (float         *)
(* division by zero) or TypeError (arithmetic on None).                    *)
(***************************************************************************)
EXTENDS Integers, FiniteSets, Sequences, TLC

VARIABLES pc, fn, args, ret

vars == <<pc, fn, args, ret>>

(***************************************************************************)
(* Bounds of the argument sets.                                            *)
(***************************************************************************)
MaxRes == 2
MaxVn == 3
MaxIn == 1
MaxGbw == 2
MaxFres == 1
MaxFcap == 4
MaxCorner == 1

(***************************************************************************)
(* Scaled rationals.                                                       *)
(***************************************************************************)
Abs(x) == IF x < 0 THEN -x ELSE x

Min(x, y) == IF x < y THEN x ELSE y

RECURSIVE Gcd(_, _)
Gcd(a, b) == IF b = 0 THEN a ELSE Gcd(b, a % b)

RECURSIVE Pow10(_)
Pow10(k) == IF k = 0 THEN 1 ELSE 10 * Pow10(k - 1)

\* (n/d) * 10^e * pi^p in canonical form: d > 0 coprime to n and to 10,
\* n not a multiple of 10, zero written 0/1 * 10^0 * pi^0.
RECURSIVE Canon(_, _, _, _)
Canon(n, d, e, p) ==
  IF n = 0 THEN [n |-> 0, d |-> 1, e |-> 0, p |-> 0]
  ELSE IF d < 0 THEN Canon(-n, -d, e, p)
  ELSE LET g == Gcd(Abs(n), d) IN
       IF g > 1 THEN Canon(n \div g, d \div g, e, p)
       ELSE IF d % 2 = 0 THEN Canon(n * 5, d \div 2, e - 1, p)
       ELSE IF d % 5 = 0 THEN Canon(n * 2, d \div 5, e - 1, p)
       ELSE IF n % 10 = 0 THEN Canon(n \div 10, d, e + 1, p)
       ELSE [n |-> n, d |-> d, e |-> e, p |-> p]

Q(n, d, e) == Canon(n, d, e, 0)

QZero == Q(0, 1, 0)

QInt(m) == Q(m, 1, 0)

QSign(x) == IF x.n > 0 THEN 1 ELSE IF x.n < 0 THEN -1 ELSE 0

QNeg(x) == [x EXCEPT !.n = -x.n]

QMul(x, y) ==
  LET g1 == Gcd(Abs(x.n), y.d)
      g2 == Gcd(Abs(y.n), x.d)
  IN  IF x.n = 0 \/ y.n = 0 THEN QZero
      ELSE Canon((x.n \div g1) * (y.n \div g2), (x.d \div g2) * (y.d \div g1),
                 x.e + y.e, x.p + y.p)

\* 1/x, for x # 0
QInv(x) == Canon(x.d, x.n, -x.e, -x.p)

QDiv(x, y) == QMul(x, QInv(y))

\* x + y, for x and y with the same power of pi (or zero)
QAdd(x, y) ==
  IF x.n = 0 THEN y
  ELSE IF y.n = 0 THEN x
  ELSE LET m == Min(x.e, y.e)
           g == Gcd(x.d, y.d)
           l == (x.d \div g) * y.d
       IN  Canon(x.n * Pow10(x.e - m) * (l \div x.d) + y.n * Pow10(y.e - m) * (l \div y.d),
                 l, m, x.p)

QSub(x, y) == QAdd(x, QNeg(y))

QSq(x) == QMul(x, x)

\* comparison of rationals with the same power of pi
QLess(x, y) ==
  IF QSign(x) # QSign(y) THEN QSign(x) < QSign(y)
  ELSE QSign(QSub([x EXCEPT !.p = 0], [y EXCEPT !.p = 0])) < 0

QLeq(x, y) == x = y \/ QLess(x, y)

QMin(x, y) == IF QLess(y, x) THEN y ELSE x

\* np.pi lies strictly between these two fractions.
PiLo == Q(333, 106, 0)

PiHi == Q(355, 113, 0)

\* rational bounds of x: x itself when it holds no power of pi
QLo(x) ==
  LET r == [x EXCEPT !.p = 0]
  IN  IF x.p = 0 THEN x
      ELSE IF x.p = 1 THEN QMin(QMul(r, PiLo), QMul(r, PiHi))
      ELSE QMin(QDiv(r, PiLo), QDiv(r, PiHi))

QHi(x) == QNeg(QLo(QNeg(x)))

\* the truth values x > y can take: one value unless the rational bounds
\* of pi cannot tell
QGtSet(x, y) ==
  IF x.p = y.p THEN {QLess(y, x)}
  ELSE IF QLeq(QHi(y), QLo(x)) THEN {TRUE}
  ELSE IF QLeq(QHi(x), QLo(y)) THEN {FALSE}
  ELSE {TRUE, FALSE}

(***************************************************************************)
(* Python values and what a call ends with.                                *)
(***************************************************************************)
None == [t |-> "None", a |-> QZero, b |-> QZero]

NaN == [t |-> "nan", a |-> QZero, b |-> QZero]

\* True / False
Bool(x) == [t |-> IF x THEN "True" ELSE "False", a |-> QZero, b |-> QZero]

\* the text a print() call writes
Text(s) == [t |-> s, a |-> QZero, b |-> QZero]

Num(q) == [t |-> "num", a |-> q, b |-> QZero]

\* sqrt(q), q > 0
Surd(q) == [t |-> "sqrt", a |-> q, b |-> QZero]

\* sqrt(q1) * sqrt(q2), q1 >= 0 and q2 >= 0
Prod(q1, q2) == [t |-> "prod", a |-> q1, b |-> q2]

IsNaN(x) == x.t = "nan"

Return_(v, o) == [exc |-> "none", val |-> v, out |-> o]

Raise(e) == [exc |-> e, val |-> None, out |-> None]

Raised(r) == r.exc # "none"

NoCall == [exc |-> "none", val |-> None, out |-> None]

\* bool(x) of a number or None
Truthy(x) == x.t # "None" /\ ~(x.t = "num" /\ x.a.n = 0)

\* x or y
PyOr(x, y) == IF Truthy(x) THEN x ELSE y

\* np.sqrt(x)
PySqrt(x) ==
  IF IsNaN(x) THEN NaN
  ELSE IF x.a.n < 0 THEN NaN
  ELSE IF x.a.n = 0 THEN Num(QZero)
  ELSE Surd(x.a)

\* x ** 2
PySq(x) ==
  IF IsNaN(x) THEN NaN
  ELSE IF x.t = "sqrt" THEN Num(x.a)
  ELSE Num(QSq(x.a))

\* x + y of numbers
PyAdd(x, y) == IF IsNaN(x) \/ IsNaN(y) THEN NaN ELSE Num(QAdd(x.a, y.a))

\* x * y: numbers, a non-negative number times a square root, or two
\* square roots
PyMul(x, y) ==
  IF IsNaN(x) \/ IsNaN(y) THEN NaN
  ELSE IF x.t = "num" /\ y.t = "num" THEN Num(QMul(x.a, y.a))
  ELSE IF x.t = "num" THEN PySqrt(Num(QMul(QSq(x.a), y.a)))
  ELSE IF y.t = "num" THEN PySqrt(Num(QMul(QSq(y.a), x.a)))
  ELSE Prod(x.a, y.a)

\* x / y of numbers
PyDiv(x, y) ==
  IF y.a.n = 0 THEN Raise("ZeroDivisionError")
  ELSE Return_(Num(QDiv(x.a, y.a)), None)

\* the truth values of x > y: FALSE when either is NaN
PyGt(x, y) ==
  IF IsNaN(x) \/ IsNaN(y) THEN {FALSE}
  ELSE IF x.t = "num" /\ y.t = "num" THEN QGtSet(x.a, y.a)
  ELSE IF x.t = "sqrt" /\ y.t = "sqrt" THEN {QLess(y.a, x.a)}
  ELSE IF x.t = "sqrt" THEN {y.a.n < 0 \/ QLess(QSq(y.a), x.a)}
  ELSE {x.a.n > 0 /\ QLess(y.a, QSq(x.a))}

\* x > y where the operands hold no power of pi
PyGtBool(x, y) == TRUE \in PyGt(x, y)

(***************************************************************************)
(* The functions of opampnoise.py.                                         *)
(***************************************************************************)
\* k = 1.38e-23
k == Num(Q(138, 1, -25))

\* temp = 289
temp == Num(QInt(289))

\* filter_order=1.57, and the literal 1.57 of the filter branch
FilterOrder == Num(Q(157, 1, -2))

\* np.pi
Pi == Num([n |-> 1, d |-> 1, e |-> 0, p |-> 1])

\* inverting_opamp_gain with the quotient upside down
inverting_opamp_gain_Swapped(feedback_res, g_res) == PyDiv(g_res, feedback_res)

inverting_opamp_gain(feedback_res, g_res) == PyDiv(feedback_res, g_res)

\* parallel_res with the quotient upside down
parallel_res_Inverted(res_one, res_two) ==
  PyDiv(PyAdd(res_one, res_two), PyMul(res_one, res_two))

\* parallel_res giving the series resistance
parallel_res_Series(res_one, res_two) == Return_(PyAdd(res_one, res_two), None)

parallel_res(res_one, res_two) ==
  PyDiv(PyMul(res_one, res_two), PyAdd(res_one, res_two))

resistor_thermal_noise(res) ==
  Return_(PySqrt(PyMul(PyMul(PyMul(Num(QInt(4)), k), temp), res)), None)

\* noise_gain without the leading 1
noise_gain_NoUnity(feedback_res, res_g) == PyDiv(feedback_res, res_g)

noise_gain(feedback_res, res_g) ==
  LET quot == PyDiv(feedback_res, res_g)
  IN  IF Raised(quot) THEN quot
      ELSE Return_(PyAdd(Num(QInt(1)), quot.val), None)

opamp_circuit_current_noise(feedback_res, g_res, opamp_input_current_noise) ==
  LET Req == parallel_res(feedback_res, g_res)
  IN  IF Raised(Req) THEN Req
      ELSE Return_(PyMul(Req.val, opamp_input_current_noise), None)

\* opamp_broadband_noise without the filter_order factor
opamp_broadband_noise_Unscaled(opamp_GBW, noise_gain_, filter_order) ==
  PyDiv(opamp_GBW, noise_gain_)

opamp_broadband_noise(opamp_GBW, noise_gain_, filter_order) ==
  LET quot == PyDiv(opamp_GBW, noise_gain_)
  IN  IF Raised(quot) THEN quot
      ELSE Return_(PyMul(filter_order, quot.val), None)

\* the quadrature sum with the current-noise term subtracted
QuadratureRms_MinusCurrent(opamp_input_voltage_noise, current_noise, resistors_voltage_noise, bandwidth) ==
  PyMul(PySqrt(PyAdd(PyAdd(PySq(opamp_input_voltage_noise),
                           PyMul(Num(QInt(-1)), PySq(current_noise))),
                     PySq(resistors_voltage_noise))),
        PySqrt(bandwidth))

\* sqrt(v**2 + current_noise**2 + resistors_voltage_noise**2) * sqrt(bandwidth)
QuadratureRms(opamp_input_voltage_noise, current_noise, resistors_voltage_noise, bandwidth) ==
  PyMul(PySqrt(PyAdd(PyAdd(PySq(opamp_input_voltage_noise), PySq(current_noise)),
                     PySq(resistors_voltage_noise))),
        PySqrt(bandwidth))

\* rc_freq = 1 / (2 * np.pi * filter_res * filter_cap)
RcFreq(filter_res, filter_cap) ==
  IF filter_res.t = "None" \/ filter_cap.t = "None" THEN Raise("TypeError")
  ELSE PyDiv(Num(QInt(1)), PyMul(PyMul(PyMul(Num(QInt(2)), Pi), filter_res), filter_cap))

\* FilterBranch with the comparison the wrong way round
FilterBranch_Swapped(gt, density_rms_bb, density_rms_rc, broadband_noise, rc_freq) ==
  IF gt THEN Return_(density_rms_rc, rc_freq)
  ELSE Return_(density_rms_bb, broadband_noise)

\* the filter branch: what is returned and printed when rc_freq > broadband_noise
\* evaluates to gt
FilterBranch(gt, density_rms_bb, density_rms_rc, broadband_noise, rc_freq) ==
  IF gt THEN Return_(density_rms_bb, broadband_noise)
  ELSE Return_(density_rms_rc, rc_freq)

\* the set of ways the call can end (one, unless the comparison of rc_freq
\* with broadband_noise is not decided by the bounds of pi)
total_input_noise_rms(opamp_input_voltage_noise, opamp_input_current_noise, feedback_res, g_res, opamp_GBW, filter_res, filter_cap) ==
  LET Req == parallel_res(feedback_res, g_res)
  IN  IF Raised(Req) THEN {Req} ELSE
  LET current_noise == PyMul(Req.val, opamp_input_current_noise)
      resistors_voltage_noise == resistor_thermal_noise(Req.val).val
      opamp_noise_gain == noise_gain(feedback_res, g_res)
  IN  IF Raised(opamp_noise_gain) THEN {opamp_noise_gain} ELSE
  LET broadband_noise == opamp_broadband_noise(opamp_GBW, opamp_noise_gain.val, FilterOrder)
  IN  IF Raised(broadband_noise) THEN {broadband_noise} ELSE
      IF ~Truthy(PyOr(filter_res, filter_cap))
      THEN {Return_(QuadratureRms(opamp_input_voltage_noise, current_noise,
                                  resistors_voltage_noise, broadband_noise.val),
                    broadband_noise.val)}
      ELSE LET rc_freq == RcFreq(filter_res, filter_cap)
           IN  IF Raised(rc_freq) THEN {rc_freq}
               ELSE {FilterBranch(gt,
                        QuadratureRms(opamp_input_voltage_noise, current_noise,
                                      resistors_voltage_noise, broadband_noise.val),
                        QuadratureRms(opamp_input_voltage_noise, current_noise,
                                      resistors_voltage_noise,
                                      PyMul(FilterOrder, rc_freq.val)),
                        broadband_noise.val, rc_freq.val)
                     : gt \in PyGt(rc_freq.val, broadband_noise.val)}

\* Classify with the tie counted as dominant
Classify_TieIsDominant(first_gt, second_gt, first, second) ==
  IF first_gt THEN Return_(Bool(first[2]), Text(first[1]))
  ELSE IF second_gt THEN Return_(Bool(second[2]), Text(second[1]))
  ELSE Return_(Bool(TRUE), Text("neither"))

\* if a > b: (first, TRUE/FALSE) elif b > a: ... else: "neither", FALSE
Classify(first_gt, second_gt, first, second) ==
  IF first_gt THEN Return_(Bool(first[2]), Text(first[1]))
  ELSE IF second_gt THEN Return_(Bool(second[2]), Text(second[1]))
  ELSE Return_(Bool(FALSE), Text("neither"))

resistor_or_opamp_noise_dominant(feedback_res, g_res, opamp_input_voltage_noise) ==
  LET Req == parallel_res(feedback_res, g_res)
  IN  IF Raised(Req) THEN Req ELSE
  LET resistors_voltage_noise == resistor_thermal_noise(Req.val).val
      three == PyMul(Num(QInt(3)), resistors_voltage_noise)
  IN  Classify(PyGtBool(three, opamp_input_voltage_noise),
               PyGtBool(opamp_input_voltage_noise, three),
               <<"resistor", FALSE>>, <<"opamp", TRUE>>)

current_noise_or_opamp_noise_dominant(feedback_res, g_res, opamp_input_current_noise, opamp_input_voltage_noise) ==
  LET input_current_noise ==
        opamp_circuit_current_noise(feedback_res, g_res, opamp_input_current_noise)
  IN  IF Raised(input_current_noise) THEN input_current_noise ELSE
  LET three == PyMul(Num(QInt(3)), input_current_noise.val)
  IN  Classify(PyGtBool(opamp_input_voltage_noise, three),
               PyGtBool(three, opamp_input_voltage_noise),
               <<"opamp", TRUE>>, <<"current", FALSE>>)

\* broadband_or_white_noise_dominant without the margin of 10
broadband_or_white_noise_dominant_NoMargin(feedback_res, g_res, opamp_GBW, opamp_freq_corner) ==
  LET opamp_noise_gain == noise_gain(feedback_res, g_res)
  IN  IF Raised(opamp_noise_gain) THEN opamp_noise_gain ELSE
  LET broadband_noise_freq ==
        opamp_broadband_noise(opamp_GBW, opamp_noise_gain.val, FilterOrder)
  IN  IF Raised(broadband_noise_freq) THEN broadband_noise_freq ELSE
      Classify(PyGtBool(broadband_noise_freq.val, opamp_freq_corner),
               PyGtBool(opamp_freq_corner, broadband_noise_freq.val),
               <<"broadband", TRUE>>, <<"flicker", FALSE>>)

broadband_or_white_noise_dominant(feedback_res, g_res, opamp_GBW, opamp_freq_corner) ==
  LET opamp_noise_gain == noise_gain(feedback_res, g_res)
  IN  IF Raised(opamp_noise_gain) THEN opamp_noise_gain ELSE
  LET broadband_noise_freq ==
        opamp_broadband_noise(opamp_GBW, opamp_noise_gain.val, FilterOrder)
  IN  IF Raised(broadband_noise_freq) THEN broadband_noise_freq ELSE
  LET ten == PyMul(Num(QInt(10)), opamp_freq_corner)
  IN  Classify(PyGtBool(broadband_noise_freq.val, ten),
               PyGtBool(ten, broadband_noise_freq.val),
               <<"broadband", TRUE>>, <<"flicker", FALSE>>)

total_output_noise_rms(input_voltage_noise, opamp_gain) ==
  Return_(PyMul(input_voltage_noise, opamp_gain), None)

(***************************************************************************)
(* Argument sets: multiples (negative, zero and positive) of a unit.       *)
(***************************************************************************)
Multiples(lo, hi, n, e) == {Num(Q(m * n, 1, e)) : m \in lo..hi}

\* resistances in steps of 1 kOhm
Resistances == Multiples(-1, MaxRes, 1, 3)

\* voltage noise densities: steps of 10 nV/sqrt(Hz), and multiples of the
\* thermal noise of 500 Ohm (two 1 kOhm resistors in parallel)
VoltageNoises ==
  Multiples(-1, MaxVn, 1, -8)
    \cup {PyMul(Num(QInt(m)), resistor_thermal_noise(Num(Q(5, 1, 2))).val) : m \in 1..MaxVn}

\* current noise densities in steps of 20 pA/sqrt(Hz)
CurrentNoises == Multiples(-1, MaxIn, 2, -11)

\* gain-bandwidth products in steps of 1 MHz
GBWs == Multiples(-1, MaxGbw, 1, 6)

\* filter resistor in steps of 1 kOhm, filter capacitor in steps of 100 pF
FilterRes == {None} \cup Multiples(-1, MaxFres, 1, 3)

FilterCaps == {None} \cup Multiples(-1, MaxFcap, 1, -10)

\* 1/f corner frequencies in steps of 78.5 kHz
Corners == Multiples(-1, MaxCorner, 785, 2)

\* noise gains and stage gains
Gains == Multiples(-1, MaxRes, 1, 0)

(***************************************************************************)
(* The state machine: from idle, one of the functions is called with       *)
(* arguments of the sets above and runs to its end; the caller then takes  *)
(* what it returned or raised.                                             *)
(***************************************************************************)
Init ==
  /\ pc = "idle"
  /\ fn = "none"
  /\ args = <<>>
  /\ ret = NoCall

Ends(f, a, r) ==
  /\ pc' = "done"
  /\ fn' = f
  /\ args' = a
  /\ ret' = r

Call_inverting_opamp_gain ==
  /\ pc = "idle"
  /\ \E feedback_res \in Resistances, g_res \in Resistances :
    Ends("inverting_opamp_gain",
         [feedback_res |-> feedback_res, g_res |-> g_res],
         inverting_opamp_gain(feedback_res, g_res))

Call_parallel_res ==
  /\ pc = "idle"
  /\ \E res_one \in Resistances, res_two \in Resistances :
    Ends("parallel_res",
         [res_one |-> res_one, res_two |-> res_two],
         parallel_res(res_one, res_two))

Call_resistor_thermal_noise ==
  /\ pc = "idle"
  /\ \E res \in Resistances :
    Ends("resistor_thermal_noise", [res |-> res], resistor_thermal_noise(res))

Call_noise_gain ==
  /\ pc = "idle"
  /\ \E feedback_res \in Resistances, res_g \in Resistances :
    Ends("noise_gain",
         [feedback_res |-> feedback_res, res_g |-> res_g],
         noise_gain(feedback_res, res_g))

Call_opamp_circuit_current_noise ==
  /\ pc = "idle"
  /\ \E feedback_res \in Resistances, g_res \in Resistances,
     opamp_input_current_noise \in CurrentNoises :
    Ends("opamp_circuit_current_noise",
         [feedback_res |-> feedback_res, g_res |-> g_res,
          opamp_input_current_noise |-> opamp_input_current_noise],
         opamp_circuit_current_noise(feedback_res, g_res, opamp_input_current_noise))

Call_opamp_broadband_noise ==
  /\ pc = "idle"
  /\ \E opamp_GBW \in GBWs, noise_gain_ \in Gains :
    Ends("opamp_broadband_noise",
         [opamp_GBW |-> opamp_GBW, noise_gain |-> noise_gain_,
          filter_order |-> FilterOrder],
         opamp_broadband_noise(opamp_GBW, noise_gain_, FilterOrder))

Call_total_input_noise_rms ==
  /\ pc = "idle"
  /\ \E opamp_input_voltage_noise \in VoltageNoises,
     opamp_input_current_noise \in CurrentNoises,
     feedback_res \in Resistances, g_res \in Resistances, opamp_GBW \in GBWs,
     filter_res \in FilterRes, filter_cap \in FilterCaps :
    \E r \in total_input_noise_rms(opamp_input_voltage_noise, opamp_input_current_noise,
                                   feedback_res, g_res, opamp_GBW, filter_res, filter_cap) :
      Ends("total_input_noise_rms",
           [opamp_input_voltage_noise |-> opamp_input_voltage_noise,
            opamp_input_current_noise |-> opamp_input_current_noise,
            feedback_res |-> feedback_res, g_res |-> g_res, opamp_GBW |-> opamp_GBW,
            filter_res |-> filter_res, filter_cap |-> filter_cap],
           r)

Call_total_output_noise_rms ==
  /\ pc = "idle"
  /\ \E input_voltage_noise \in Multiples(-1, MaxVn, 1, -8), opamp_gain \in Gains :
    Ends("total_output_noise_rms",
         [input_voltage_noise |-> input_voltage_noise, opamp_gain |-> opamp_gain],
         total_output_noise_rms(input_voltage_noise, opamp_gain))

Call_resistor_or_opamp_noise_dominant ==
  /\ pc = "idle"
  /\ \E feedback_res \in Resistances, g_res \in Resistances,
     opamp_input_voltage_noise \in VoltageNoises :
    Ends("resistor_or_opamp_noise_dominant",
         [feedback_res |-> feedback_res, g_res |-> g_res,
          opamp_input_voltage_noise |-> opamp_input_voltage_noise],
         resistor_or_opamp_noise_dominant(feedback_res, g_res, opamp_input_voltage_noise))

Call_current_noise_or_opamp_noise_dominant ==
  /\ pc = "idle"
  /\ \E feedback_res \in Resistances, g_res \in Resistances,
     opamp_input_current_noise \in CurrentNoises,
     opamp_input_voltage_noise \in VoltageNoises :
    Ends("current_noise_or_opamp_noise_dominant",
         [feedback_res |-> feedback_res, g_res |-> g_res,
          opamp_input_current_noise |-> opamp_input_current_noise,
          opamp_input_voltage_noise |-> opamp_input_voltage_noise],
         current_noise_or_opamp_noise_dominant(feedback_res, g_res,
                                               opamp_input_current_noise,
                                               opamp_input_voltage_noise))

Call_broadband_or_white_noise_dominant ==
  /\ pc = "idle"
  /\ \E feedback_res \in Resistances, g_res \in Resistances, opamp_GBW \in GBWs,
     opamp_freq_corner \in Corners :
    Ends("broadband_or_white_noise_dominant",
         [feedback_res |-> feedback_res, g_res |-> g_res, opamp_GBW |-> opamp_GBW,
          opamp_freq_corner |-> opamp_freq_corner],
         broadband_or_white_noise_dominant(feedback_res, g_res, opamp_GBW,
                                           opamp_freq_corner))

\* the caller goes on after the call has returned or raised
CallerResumes ==
  /\ pc = "done"
  /\ pc' = "idle"
  /\ fn' = "none"
  /\ args' = <<>>
  /\ ret' = NoCall

Next ==
  \/ Call_inverting_opamp_gain
  \/ Call_parallel_res
  \/ Call_resistor_thermal_noise
  \/ Call_noise_gain
  \/ Call_opamp_circuit_current_noise
  \/ Call_opamp_broadband_noise
  \/ Call_total_input_noise_rms
  \/ Call_total_output_noise_rms
  \/ Call_resistor_or_opamp_noise_dominant
  \/ Call_current_noise_or_opamp_noise_dominant
  \/ Call_broadband_or_white_noise_dominant
  \/ CallerResumes

Spec == Init /\ [][Next]_vars

(***************************************************************************)
(* Vocabulary of the properties: the quantities the specification names,   *)
(* computed from the arguments of the call that has just ended.            *)
(***************************************************************************)
Called(f) == pc = "done" /\ fn = f

Returned == ret.exc = "none"

IsPositive(x) == x.t \in {"num", "sqrt"} /\ x.a.n > 0

IsNonPositive(x) == x.t = "num" /\ x.a.n <= 0

\* x squared, of a number or a square root
SquareOf(x) == IF x.t = "sqrt" THEN x.a ELSE QSq(x.a)

\* Req = parallel_resistance(feedback_res, g_res), for feedback_res + g_res # 0
SpecReq(a) ==
  QDiv(QMul(a.feedback_res.a, a.g_res.a), QAdd(a.feedback_res.a, a.g_res.a))

\* thermal_noise_density(r) squared: 4 * k * T * r
SpecThermalSq(r) == QMul(QMul(QMul(QInt(4), k.a), temp.a), r)

\* amplifier_bandwidth(gbw, noise_gain(feedback_res, g_res)) = 1.57*gbw/(1 + Rf/Rg)
SpecAmplifierBandwidth(a) ==
  QDiv(QMul(Q(157, 1, -2), a.opamp_GBW.a),
       QAdd(QInt(1), QDiv(a.feedback_res.a, a.g_res.a)))

\* rc_corner = 1/(2*pi*filter_res*filter_cap)
SpecRcCorner(a) ==
  QInv(QMul(QMul(QInt(2), Pi.a), QMul(a.filter_res.a, a.filter_cap.a)))

\* voltage_noise^2 + (Req*current_noise)^2 + thermal_noise_density(Req)^2
SpecDensitySq(a) ==
  QAdd(QAdd(SquareOf(a.opamp_input_voltage_noise),
            QSq(QMul(SpecReq(a), a.opamp_input_current_noise.a))),
       SpecThermalSq(SpecReq(a)))

\* x < y for certain, whatever pi is within its bounds
SurelyLess(x, y) == QGtSet(y, x) = {TRUE}

\* resistances and gain-bandwidth product of the stage are positive
PositiveStage(a) ==
  IsPositive(a.feedback_res) /\ IsPositive(a.g_res) /\ IsPositive(a.opamp_GBW)

FilterGiven(a) == IsPositive(a.filter_res) /\ IsPositive(a.filter_cap)

FilterOmitted(a) == a.filter_res = None /\ a.filter_cap = None

(***************************************************************************)
(* C1..C3: the bandwidth total_input_noise_rms integrates over.            *)
(***************************************************************************)
\* C1: with a filter given (filter_res and filter_cap positive) on a stage
\* with positive resistances and GBW, the call returns the quadrature sum of
\* the three densities times the square root of the effective bandwidth,
\* which is 1.57*rc_corner when rc_corner < bb and bb when bb < rc_corner.
C1_FilterBandwidth ==
  Called("total_input_noise_rms") /\ PositiveStage(args) /\ FilterGiven(args)
    => /\ Returned
       /\ SurelyLess(SpecRcCorner(args), SpecAmplifierBandwidth(args))
            => ret.val = Prod(SpecDensitySq(args),
                              QMul(Q(157, 1, -2), SpecRcCorner(args)))
       /\ SurelyLess(SpecAmplifierBandwidth(args), SpecRcCorner(args))
            => ret.val = Prod(SpecDensitySq(args), SpecAmplifierBandwidth(args))

\* C1 witness: a filter-limited call (rc_corner < bb) that returned the
\* density integrated over 1.57*rc_corner.
C1_Witness ==
  /\ Called("total_input_noise_rms") /\ PositiveStage(args) /\ FilterGiven(args)
  /\ SurelyLess(SpecRcCorner(args), SpecAmplifierBandwidth(args))
  /\ Returned /\ ret.val.t = "prod"
  /\ ret.val.b = QMul(Q(157, 1, -2), SpecRcCorner(args))

\* C2: whenever a filter is present (filter_res, filter_cap, gbw, feedback_res,
\* g_res and the noise densities all positive), the bandwidth under the square root of the
\* returned value never exceeds the amplifier's broadband corner.
C2_BandwidthIsTheSmaller ==
  Called("total_input_noise_rms") /\ PositiveStage(args) /\ FilterGiven(args)
    /\ IsPositive(args.opamp_input_voltage_noise)
    /\ IsPositive(args.opamp_input_current_noise)
    /\ Returned /\ ret.val.t = "prod"
    => ~SurelyLess(SpecAmplifierBandwidth(args), ret.val.b)

\* C3: with filter_res and filter_cap both None on a stage with positive
\* resistances and GBW, the call returns the quadrature sum of the three
\* densities times the square root of exactly 1.57*gbw/(1 + feedback_res/g_res).
C3_NoFilterBandwidth ==
  Called("total_input_noise_rms") /\ PositiveStage(args) /\ FilterOmitted(args)
    => /\ Returned
       /\ ret.val = Prod(SpecDensitySq(args), SpecAmplifierBandwidth(args))

\* C3 witness: a call without filter, with non-zero current and voltage
\* noise, that returned a value.
C3_Witness ==
  /\ Called("total_input_noise_rms") /\ PositiveStage(args) /\ FilterOmitted(args)
  /\ IsPositive(args.opamp_input_voltage_noise)
  /\ IsPositive(args.opamp_input_current_noise)
  /\ Returned /\ ret.val.t = "prod"

(***************************************************************************)
(* C4, C5: invalid arguments of total_input_noise_rms.                     *)
(***************************************************************************)
\* C4: a call of total_input_noise_rms with filter_res or filter_cap zero or
\* negative (on a stage whose other arguments are all positive) fails
\* (raises) and returns no value.
C4_BadFilterFails ==
  Called("total_input_noise_rms") /\ PositiveStage(args)
    /\ IsPositive(args.opamp_input_voltage_noise)
    /\ IsPositive(args.opamp_input_current_noise)
    /\ (IsNonPositive(args.filter_res) \/ IsNonPositive(args.filter_cap))
    => ~Returned

\* C5: a call of total_input_noise_rms with a non-positive resistance,
\* capacitance, GBW or noise density fails, and every call that returns gives
\* a value that is not NaN.
C5_NoDegradedValue ==
  Called("total_input_noise_rms")
    => /\ (\/ IsNonPositive(args.feedback_res) \/ IsNonPositive(args.g_res)
           \/ IsNonPositive(args.filter_res) \/ IsNonPositive(args.filter_cap)
           \/ IsNonPositive(args.opamp_GBW)
           \/ IsNonPositive(args.opamp_input_voltage_noise)
           \/ IsNonPositive(args.opamp_input_current_noise))
          => ~Returned
       /\ Returned => ~IsNaN(ret.val)

(***************************************************************************)
(* C6, C7, C10: the two resistor formulas.                                 *)
(***************************************************************************)
\* C6: inverting_gain(feedback_res, g_res) returns the number whose product
\* with g_res is feedback_res when g_res # 0, and fails with a division
\* error, returning nothing, when g_res = 0.
C6_InvertingGain ==
  Called("inverting_opamp_gain")
    => IF args.g_res.a.n = 0
       THEN ret.exc = "ZeroDivisionError" /\ ret.val = None
       ELSE /\ Returned /\ ret.val.t = "num"
            /\ QMul(ret.val.a, args.g_res.a) = args.feedback_res.a

\* C6 witness: a call with g_res = 0 and a non-zero feedback_res that raised.
C6_Witness ==
  /\ Called("inverting_opamp_gain")
  /\ args.g_res.a.n = 0 /\ args.feedback_res.a.n # 0
  /\ ret.exc = "ZeroDivisionError"

\* C7: parallel_resistance(r1, r2) returns the number whose product with
\* r1 + r2 is r1*r2 when r1 + r2 # 0, and fails with a division error,
\* returning nothing, when r1 + r2 = 0.
C7_ParallelResistance ==
  Called("parallel_res")
    => IF QAdd(args.res_one.a, args.res_two.a).n = 0
       THEN ret.exc = "ZeroDivisionError" /\ ret.val = None
       ELSE /\ Returned /\ ret.val.t = "num"
            /\ QMul(ret.val.a, QAdd(args.res_one.a, args.res_two.a))
                 = QMul(args.res_one.a, args.res_two.a)

\* C7 witness: a call with r1 = -r2, both non-zero, that raised.
C7_Witness ==
  /\ Called("parallel_res")
  /\ args.res_one.a.n # 0 /\ args.res_one.a = QNeg(args.res_two.a)
  /\ ret.exc = "ZeroDivisionError"

\* C10: for positive r1 and r2, parallel_resistance(r1, r2) is strictly
\* positive and at most min(r1, r2).
C10_ParallelAtMostMin ==
  Called("parallel_res") /\ IsPositive(args.res_one) /\ IsPositive(args.res_two)
    => /\ Returned /\ ret.val.t = "num"
       /\ QSign(ret.val.a) = 1
       /\ QLeq(ret.val.a, QMin(args.res_one.a, args.res_two.a))

\* C10 witness: a call with two different positive resistances that returned.
C10_Witness ==
  /\ Called("parallel_res") /\ IsPositive(args.res_one) /\ IsPositive(args.res_two)
  /\ args.res_one # args.res_two
  /\ Returned

(***************************************************************************)
(* C8, C9: the dominance classifiers.                                      *)
(***************************************************************************)
\* v > x, for v a number or a square root and x a number
Exceeds(v, x) ==
  IF v.t = "sqrt" THEN x.n < 0 \/ QLess(QSq(x), v.a) ELSE QLess(x, v.a)

\* v = x, for v a number or a square root and x a number
Equals(v, x) ==
  IF v.t = "sqrt" THEN x.n > 0 /\ QSq(x) = v.a ELSE x = v.a

\* v > 3 * thermal_noise_density(r); never when r < 0 (the density is NaN)
ExceedsThreeThermal(v, r) ==
  r.n >= 0 /\ IsPositive(v) /\ QLess(QMul(QInt(9), SpecThermalSq(r)), SquareOf(v))

\* v = 3 * thermal_noise_density(r)
EqualsThreeThermal(v, r) ==
  r.n >= 0 /\ v.a.n >= 0 /\ SquareOf(v) = QMul(QInt(9), SpecThermalSq(r))

\* C8: each of the two voltage-noise classifiers, when it returns, returns
\* true exactly when voltage_noise_density > 3 * the competing density
\* (thermal noise of, or current noise through, parallel_resistance(Rf, Rg)),
\* and when the voltage noise is exactly 3 * the competing density it takes
\* the "neither" branch and returns false.
C8_VoltageDominance ==
  /\ Called("resistor_or_opamp_noise_dominant") /\ Returned
       => /\ ret.val = Bool(TRUE) <=> ExceedsThreeThermal(args.opamp_input_voltage_noise, SpecReq(args))
          /\ EqualsThreeThermal(args.opamp_input_voltage_noise, SpecReq(args))
               => ret.val = Bool(FALSE) /\ ret.out = Text("neither")
  /\ Called("current_noise_or_opamp_noise_dominant") /\ Returned
       => LET three == QMul(QInt(3), QMul(SpecReq(args), args.opamp_input_current_noise.a))
          IN  /\ ret.val = Bool(TRUE) <=> Exceeds(args.opamp_input_voltage_noise, three)
              /\ Equals(args.opamp_input_voltage_noise, three)
                   => ret.val = Bool(FALSE) /\ ret.out = Text("neither")

\* C8 witness: the voltage-vs-resistor classifier called with a positive
\* voltage noise of exactly 3 * the thermal noise, ending in "neither".
C8_Witness ==
  /\ Called("resistor_or_opamp_noise_dominant") /\ Returned
  /\ IsPositive(args.opamp_input_voltage_noise)
  /\ EqualsThreeThermal(args.opamp_input_voltage_noise, SpecReq(args))
  /\ ret.out = Text("neither")

C11_NoiseGainIsGainPlusOne ==
  Called("noise_gain") /\ IsPositive(args.feedback_res) /\ IsPositive(args.res_g)
    => LET gain == inverting_opamp_gain(args.feedback_res, args.res_g)
       IN  /\ Returned /\ ~Raised(gain)
           /\ ret.val = PyAdd(gain.val, Num(QInt(1)))

\* C11 witness: noise_gain called with two different positive resistances,
\* returning a value.
C11_Witness ==
  /\ Called("noise_gain") /\ IsPositive(args.feedback_res) /\ IsPositive(args.res_g)
  /\ args.feedback_res # args.res_g
  /\ Returned /\ ret.val.t = "num"

(***************************************************************************)
(* C12: monotonicity of total_input_noise_rms in the noise densities.      *)
(***************************************************************************)
\* every argument positive, the filter given whole or omitted whole
AllPositive(a) ==
  /\ PositiveStage(a)
  /\ IsPositive(a.opamp_input_voltage_noise)
  /\ IsPositive(a.opamp_input_current_noise)
  /\ FilterGiven(a) \/ FilterOmitted(a)

\* x <= y, of two RMS values integrated over the same bandwidth
RmsLeq(x, y) == x.t = "prod" /\ y.t = "prod" /\ x.b = y.b /\ QLeq(x.a, y.a)

\* x <= y, of two densities
DensityLeq(x, y) == ~IsNaN(x) /\ ~IsNaN(y) /\ ~PyGtBool(x, y)

\* current noise densities to compare with: one step beyond the argument set
HigherCurrents == Multiples(1, MaxIn + 1, 2, -11)

\* thermal noise densities to compare with
HigherThermals == {resistor_thermal_noise(r).val : r \in Multiples(1, MaxRes, 1, 3)}

\* C12: with resistances, GBW and filter fixed and every argument positive,
\* the value total_input_noise_rms returns is the quadrature expression of
\* its three densities over the bandwidth of its branch, and it does not get
\* smaller when the voltage noise density or the current noise density is
\* raised in the call, nor when the thermal noise is raised in the
\* expression, the other two staying as they are.
C12_MonotoneInDensities ==
  Called("total_input_noise_rms") /\ AllPositive(args)
    => /\ Returned /\ ret.val.t = "prod"
       /\ LET Req == Num(SpecReq(args))
              v == args.opamp_input_voltage_noise
              c == PyMul(Req, args.opamp_input_current_noise)
              th == resistor_thermal_noise(Req).val
              bw == Num(ret.val.b)
          IN  /\ ret.val = QuadratureRms(v, c, th, bw)
              /\ \A v2 \in VoltageNoises : DensityLeq(v, v2) =>
                   \A r2 \in total_input_noise_rms(v2, args.opamp_input_current_noise,
                                args.feedback_res, args.g_res, args.opamp_GBW,
                                args.filter_res, args.filter_cap) :
                     ~Raised(r2) /\ RmsLeq(ret.val, r2.val)
              /\ \A i2 \in HigherCurrents : DensityLeq(args.opamp_input_current_noise, i2) =>
                   \A r2 \in total_input_noise_rms(v, i2,
                                args.feedback_res, args.g_res, args.opamp_GBW,
                                args.filter_res, args.filter_cap) :
                     ~Raised(r2) /\ RmsLeq(ret.val, r2.val)
              /\ \A th2 \in HigherThermals : DensityLeq(th, th2) =>
                   RmsLeq(ret.val, QuadratureRms(v, c, th2, bw))

\* C12 witness: a filter-limited call with every argument positive for which
\* a higher voltage noise density of the argument set gives a larger value.
C12_Witness ==
  /\ Called("total_input_noise_rms") /\ AllPositive(args) /\ FilterGiven(args)
  /\ SurelyLess(SpecRcCorner(args), SpecAmplifierBandwidth(args))
  /\ Returned /\ ret.val.t = "prod"
  /\ \E v2 \in VoltageNoises :
       /\ PyGtBool(v2, args.opamp_input_voltage_noise)
       /\ \E r2 \in total_input_noise_rms(v2, args.opamp_input_current_noise,
                       args.feedback_res, args.g_res, args.opamp_GBW,
                       args.filter_res, args.filter_cap) :
            RmsLeq(ret.val, r2.val) /\ r2.val # ret.val

(***************************************************************************)
(* C14..C16: the filter arguments given by halves, the margins of the      *)
(* voltage-vs-resistor classifier, and the bandwidth printed.              *)
(***************************************************************************)
\* exactly one of filter_res and filter_cap is given (positive), the other
\* left None
FilterHalfGiven(a) ==
  \/ a.filter_res = None /\ IsPositive(a.filter_cap)
  \/ IsPositive(a.filter_res) /\ a.filter_cap = None

\* C14: a call of total_input_noise_rms with only one of filter_res and
\* filter_cap supplied (the other arguments positive) does not fail and
\* returns what the call with both omitted returns.
C14_HalfFilterIsNoFilter ==
  Called("total_input_noise_rms") /\ PositiveStage(args)
    /\ IsPositive(args.opamp_input_voltage_noise)
    /\ IsPositive(args.opamp_input_current_noise)
    /\ FilterHalfGiven(args)
    => /\ Returned
       /\ ret \in total_input_noise_rms(args.opamp_input_voltage_noise,
                     args.opamp_input_current_noise, args.feedback_res, args.g_res,
                     args.opamp_GBW, None, None)

\* C15: the voltage-vs-resistor classifier, called with positive arguments,
\* ends "resistor dominant" only when the thermal noise exceeds 3 * the
\* voltage noise, "opamp dominant" only when the voltage noise exceeds
\* 3 * the thermal noise, and "neither" for everything in between.
C15_SymmetricMargins ==
  Called("resistor_or_opamp_noise_dominant") /\ Returned
    /\ IsPositive(args.feedback_res) /\ IsPositive(args.g_res)
    /\ IsPositive(args.opamp_input_voltage_noise)
    => LET thermalSq == SpecThermalSq(SpecReq(args))
           voltageSq == SquareOf(args.opamp_input_voltage_noise)
           resistorDominant == QLess(QMul(QInt(9), voltageSq), thermalSq)
           opampDominant == QLess(QMul(QInt(9), thermalSq), voltageSq)
       IN  /\ ret.out = Text("resistor") => resistorDominant
           /\ ret.out = Text("opamp") => opampDominant
           /\ ~resistorDominant /\ ~opampDominant => ret.out = Text("neither")

\* C16: in every branch of total_input_noise_rms (every argument positive)
\* the bandwidth printed is the bandwidth under the square root of the
\* returned value.
C16_PrintedBandwidthIsUsed ==
  Called("total_input_noise_rms") /\ AllPositive(args) /\ Returned
    /\ ret.val.t = "prod"
    => ret.out = Num(ret.val.b)

====
